---- MODULE Spec2Model ----
(***************************************************************************)
(* Model of core/llm/llms/Nebius.ts: the Nebius provider adapter.          *)
(*                                                                         *)
(* JavaScript values are tagged records ([kind |-> ...]); a property that  *)
(* is absent from an object is the field holding Undefined.  A string is   *)
(* the sequence of its text fragments, the empty string the empty one, and *)
(* string concatenation is \o.                                             *)
(***************************************************************************)
EXTENDS Integers, Sequences, FiniteSets

(***************************************************************************)
(* Bounds of the model.                                                    *)
(***************************************************************************)
\* events one response stream delivers before it must close or fail
MaxEvents == 3
\* the same, per invocation, when two invocations run concurrently
MaxEventsConc == 2
\* length of options.stop
MaxStop == 3
\* largest configured maxStopWords
MaxCap == 2
\* parts in a multi-part message content
MaxParts == 2

(***************************************************************************)
(* JavaScript values.                                                      *)
(***************************************************************************)
Undefined == [kind |-> "undefined"]
Null == [kind |-> "null"]
Bool(b) == [kind |-> "boolean", val |-> b]
Num(n) == [kind |-> "number", val |-> n]
Str(s) == [kind |-> "string", text |-> s]
Arr(s) == [kind |-> "array", items |-> s]

IsNullish(v) == v.kind \in {"undefined", "null"}

\* ToBoolean: undefined, null, false, 0 and "" are falsy, all else is truthy
Truthy(v) ==
  CASE v.kind \in {"undefined", "null"} -> FALSE
    [] v.kind = "boolean" -> v.val
    [] v.kind = "number" -> v.val # 0
    [] v.kind = "string" -> v.text # << >>
    [] OTHER -> TRUE

\* a ?? b
Coalesce(a, b) == IF IsNullish(a) THEN b ELSE a

RECURSIVE JoinText(_, _)
\* Array.prototype.join on an array of strings / nullish values:
\* the elements' texts separated by sep, a nullish element giving ""
JoinText(items, sep) ==
  IF items = << >> THEN << >>
  ELSE LET h == IF IsNullish(Head(items)) THEN << >> ELSE Head(items).text
       IN  IF Len(items) = 1 THEN h
           ELSE h \o sep \o JoinText(Tail(items), sep)

\* Array.prototype.slice(start, end) with integer arguments
Slice(items, start, end) ==
  LET len == Len(items)
      from == IF start < 0 THEN (IF len + start < 0 THEN 0 ELSE len + start)
              ELSE (IF start < len THEN start ELSE len)
      to == IF end < 0 THEN (IF len + end < 0 THEN 0 ELSE len + end)
            ELSE (IF end < len THEN end ELSE len)
  IN  IF to <= from THEN << >> ELSE SubSeq(items, from + 1, to)

ObjectText == <<"[object Object]">>

\* ToStr, as the += of a string applies it to its right operand
ToStr(v) ==
  CASE v.kind = "string" -> v.text
    [] v.kind = "undefined" -> <<"undefined">>
    [] v.kind = "null" -> <<"null">>
    [] v.kind = "array" ->
         JoinText([k \in 1..Len(v.items) |->
                     IF v.items[k].kind = "string" THEN v.items[k]
                     ELSE IF IsNullish(v.items[k]) THEN Undefined
                     ELSE Str(ObjectText)], <<",">>)
    [] OTHER -> ObjectText

(***************************************************************************)
(* Messages.                                                               *)
(***************************************************************************)
TextPart(t) == [kind |-> "object", type |-> "text", text |-> Str(t),
                imageUrl |-> Undefined]
ImagePart(u) == [kind |-> "object", type |-> "imageUrl", text |-> Undefined,
                 imageUrl |-> [kind |-> "object", url |-> Str(u)]]
Message(r, c) == [kind |-> "object", role |-> r, content |-> c]

\* ConvertMessage joining the text parts with join()'s default separator
ConvertMessageComma(message) ==
  IF message.content.kind = "string" THEN message
  ELSE IF ~ \E k \in 1..Len(message.content.items) :
              message.content.items[k].type # "text"
  THEN [message EXCEPT !.content =
          Str(JoinText([k \in 1..Len(message.content.items) |->
                          message.content.items[k].text], <<",">>))]
  ELSE message

\* _convertMessage
ConvertMessage(message) ==
  IF message.content.kind = "string" THEN message
  ELSE IF ~ \E k \in 1..Len(message.content.items) :
              message.content.items[k].type # "text"
  THEN [message EXCEPT !.content =
          Str(JoinText([k \in 1..Len(message.content.items) |->
                          message.content.items[k].text], << >>))]
  ELSE [message EXCEPT !.content =
          Arr([k \in 1..Len(message.content.items) |->
                 LET part == message.content.items[k]
                 IN  IF part.type = "imageUrl"
                     THEN [kind |-> "object", type |-> "image_url",
                           text |-> part.text,
                           image_url |-> [kind |-> "object",
                                          url |-> part.imageUrl.url,
                                          detail |-> Str(<<"low">>)]]
                     ELSE [kind |-> "object", type |-> part.type,
                           text |-> part.text, image_url |-> Undefined]])]

\* StopList with the cap off by one: slice(0, maxStopWords + 1)
StopListOffByOne(options, maxStopWords) ==
  IF maxStopWords # Undefined
  THEN (IF IsNullish(options.stop) THEN Undefined
        ELSE Arr(Slice(options.stop.items, 0, maxStopWords.val + 1)))
  ELSE options.stop

\* the stop entry of _convertArgs: options.stop?.slice(0, this.maxStopWords)
\* when maxStopWords is defined, options.stop otherwise
StopList(options, maxStopWords) ==
  IF maxStopWords # Undefined
  THEN (IF IsNullish(options.stop) THEN Undefined
        ELSE Arr(Slice(options.stop.items, 0, maxStopWords.val)))
  ELSE options.stop

\* _convertArgs; maxStopWords is the adapter's field
ConvertArgs(options, messages, maxStopWords) ==
  [kind |-> "object",
   messages |-> [k \in 1..Len(messages) |-> ConvertMessage(messages[k])],
   model |-> options.model,
   max_tokens |-> options.maxTokens,
   temperature |-> options.temperature,
   top_p |-> options.topP,
   frequency_penalty |-> options.frequencyPenalty,
   presence_penalty |-> options.presencePenalty,
   stream |-> Coalesce(options.stream, Bool(TRUE)),
   stop |-> StopList(options, maxStopWords)]

\* stripImages of core/llm/images: a string is returned as it is, of a part
\* array only the text parts are kept
StripImages(content) ==
  IF content.kind = "array"
  THEN Str(JoinText(SelectSeq([k \in 1..Len(content.items) |->
                                 IF content.items[k].type = "text"
                                 THEN content.items[k].text ELSE Undefined],
                              LAMBDA t : t # Undefined), <<"\n">>))
  ELSE content

(***************************************************************************)
(* The adapter and its endpoint.                                           *)
(***************************************************************************)
DefaultApiBase == Str(<<"https://api.studio.nebius.ai/v1/">>)
DefaultApiVersion == Str(<<"2023-07-01-preview">>)

\* base URLs that new URL(path, base) accepts
AbsoluteBases == {DefaultApiBase, Str(<<"https://proxy.example/v1/">>)}

\* the adapter after construction: the field initialisers of the class run
\* after super(), so maxStopWords is undefined
Adapter(apiBase) ==
  [apiBase |-> apiBase,
   apiKey |-> Str(<<"key">>),
   apiVersion |-> DefaultApiVersion,
   maxStopWords |-> Undefined,
   useLegacyCompletionsEndpoint |-> Undefined]

\* _getEndpoint: the URL, or the error it throws
GetEndpoint(endpoint, apiBase) ==
  IF ~Truthy(apiBase) THEN [ok |-> FALSE, error |-> "ConfigurationError"]
  ELSE IF apiBase \notin AbsoluteBases THEN [ok |-> FALSE, error |-> "TypeError"]
  ELSE IF endpoint = "completions"
       THEN [ok |-> TRUE, base |-> apiBase, path |-> "chat/completions"]
       ELSE [ok |-> TRUE, base |-> apiBase, path |-> endpoint]

\* _getHeaders
GetHeaders(apiKey) ==
  [ContentType |-> Str(<<"application/json">>),
   Authorization |-> Str(<<"Bearer ">> \o apiKey.text)]

(***************************************************************************)
(* What the provider answers.                                              *)
(***************************************************************************)
Delta(content) == [kind |-> "object", role |-> Str(<<"assistant">>),
                   content |-> content]
Choice(delta, message) == [kind |-> "object", delta |-> delta,
                           message |-> message]
Event(choices) == [kind |-> "object", choices |-> choices]

\* content of a delta that mixes text and an image
MixedContent == Arr(<<TextPart(<<"see">>), ImagePart(<<"img">>)>>)

\* decoded events of a streamed response
Events ==
  { Event(Undefined),
    Event(Arr(<< >>)),
    Event(Arr(<<Choice(Undefined, Undefined)>>)),
    Event(Arr(<<Choice([kind |-> "object", role |-> Str(<<"assistant">>),
                        content |-> Undefined], Undefined)>>)),
    Event(Arr(<<Choice(Delta(Str(<< >>)), Undefined)>>)),
    Event(Arr(<<Choice(Delta(Str(<<"Hel">>)), Undefined)>>)),
    Event(Arr(<<Choice(Delta(Str(<<"lo">>)), Undefined)>>)),
    Event(Arr(<<Choice(Delta(Str(<<" world">>)), Undefined)>>)),
    Event(Arr(<<Choice(Delta(MixedContent), Undefined)>>)) }

\* the events drawn from when two invocations run concurrently
ConcEvents ==
  { Event(Arr(<<Choice(Delta(Str(<< >>)), Undefined)>>)),
    Event(Arr(<<Choice(Delta(Str(<<"Hel">>)), Undefined)>>)),
    Event(Arr(<<Choice(Delta(Str(<<"lo">>)), Undefined)>>)) }

\* parsed bodies of a non-streamed response: a completion whose message has
\* a role and a content (a string, or null), or an object without choices
Bodies ==
  { Event(Arr(<<Choice(Undefined, Delta(Str(<<"done">>)))>>)),
    Event(Arr(<<Choice(Undefined, Delta(Str(<< >>)))>>)),
    Event(Arr(<<Choice(Undefined, Delta(Null))>>)),
    Event(Arr(<<Choice(Undefined, Delta(Str(<<"one">>))),
                Choice(Undefined, Delta(Str(<<"two">>)))>>)),
    Event(Undefined) }

ConcBodies ==
  { Event(Arr(<<Choice(Undefined, Delta(Str(<<"done">>)))>>)),
    Event(Undefined) }

\* value.choices?.[0]?.delta?.content
DeltaContent(value) ==
  IF IsNullish(value.choices) THEN Undefined
  ELSE IF value.choices.items = << >> THEN Undefined
  ELSE IF IsNullish(value.choices.items[1]) THEN Undefined
  ELSE IF IsNullish(value.choices.items[1].delta) THEN Undefined
  ELSE value.choices.items[1].delta.content

(***************************************************************************)
(* State.                                                                  *)
(*   adapter  the adapter instance's fields                                *)
(*   call     per invocation: the operation, its arguments, and the state  *)
(*            of the generators and of the response it works on            *)
(*   fn       the argument and result of a direct call of _convertMessage  *)
(*            or _convertArgs                                              *)
(***************************************************************************)
VARIABLES adapter, call, fn

vars == <<adapter, call, fn>>

Invocations == {1, 2}

Options(stream, stop) ==
  [kind |-> "object", model |-> Str(<<"Qwen/Qwen2.5-Coder-7B">>),
   maxTokens |-> Num(16), temperature |-> Undefined, topP |-> Undefined,
   frequencyPenalty |-> Undefined, presencePenalty |-> Undefined,
   stream |-> stream, stop |-> stop]

\* an invocation that has been made and has not run yet.
\*   pcChat     where _streamChat stands: notStarted, awaitFetch, awaitJson,
\*              awaitSse, yieldMsg (line 156), yieldDelta (line 162), done,
\*              returned (ended by the consumer's return()), threw
\*   body       the request body of line 146
\*   request    the arguments of this.fetch
\*   fetchCalls calls of this.fetch
\*   stream     the response's stream: none, open, released
\*   sse        the event source: idle, reading, closed, failed, cancelled
\*   delivered  the events the event source has delivered
\*   data       the parsed body of line 155
\*   chatYielded what _streamChat has yielded
\*   chatNexts  how often the next item of _streamChat has been requested
\*   completion the variable of _complete
\*   observed   what the consumer of the lazy sequence has received
\*   outcome    pending, ended, returned, resolved, or the error thrown
NewCall(op, prompt, messages, options) ==
  [op |-> op, prompt |-> prompt, messages |-> messages, options |-> options,
   pcChat |-> "notStarted", body |-> Undefined, request |-> Undefined,
   fetchCalls |-> 0, stream |-> "none", sse |-> "idle", delivered |-> << >>,
   data |-> Undefined, chatYielded |-> << >>, chatNexts |-> 0,
   completion |-> << >>, observed |-> << >>, outcome |-> "pending"]

Idle == NewCall("idle", Undefined, << >>, Undefined)

Concurrent == call[2].op # "idle"
EventsNow == IF Concurrent THEN ConcEvents ELSE Events
BodiesNow == IF Concurrent THEN ConcBodies ELSE Bodies
MaxEventsNow == IF Concurrent THEN MaxEventsConc ELSE MaxEvents

\* the messages _streamChat is called with: _complete and _streamComplete
\* wrap the prompt
ChatMessages(c) ==
  IF c.op = "streamChat" THEN c.messages
  ELSE <<Message(Str(<<"user">>), c.prompt)>>

\* the event source (streamSse) stops, how being closed, failed or
\* cancelled: it releases the response's stream on each of them
SseStop(c, how) == [c EXCEPT !.sse = how, !.stream = "released"]

\* response.json() has read the body to its end
BodyRead(c) == [c EXCEPT !.stream = "released"]

\* _streamChat from its start to the await of line 147
ChatStart(c, a) ==
  LET b == ConvertArgs(c.options, ChatMessages(c), a.maxStopWords)
      e == GetEndpoint("chat/completions", a.apiBase)
  IN  IF e.ok
      THEN [c EXCEPT !.body = b,
                     !.request = [url |-> e, method |-> "POST",
                                  headers |-> GetHeaders(a.apiKey), body |-> b],
                     !.fetchCalls = @ + 1,
                     !.pcChat = "awaitFetch"]
      ELSE [c EXCEPT !.body = b, !.pcChat = "threw", !.outcome = e.error]

\* Emit with _streamComplete collecting the items instead of yielding each
EmitBuffered(c, item, at) ==
  LET y == [c EXCEPT !.chatYielded = Append(@, item)]
  IN  CASE c.op = "streamChat" ->
             [y EXCEPT !.observed = Append(@, item), !.pcChat = at]
        [] c.op = "streamComplete" ->
             [y EXCEPT !.chatNexts = @ + 1,
                       !.pcChat = IF at = "yieldMsg" THEN "done" ELSE "awaitSse",
                       !.outcome = IF at = "yieldMsg" THEN "ended" ELSE @]
        [] c.op = "complete" ->
             LET z == [y EXCEPT !.completion = @ \o ToStr(item.content),
                                !.chatNexts = @ + 1]
             IN  IF at = "yieldMsg"
                 THEN [z EXCEPT !.pcChat = "done", !.outcome = "resolved"]
                 ELSE [z EXCEPT !.pcChat = "awaitSse"]

\* _streamChat yields item at line 156 (at = "yieldMsg") or 162 ("yieldDelta")
\* and the loop that drives it takes the item
Emit(c, item, at) ==
  LET y == [c EXCEPT !.chatYielded = Append(@, item)]
  IN  CASE c.op = "streamChat" ->
             [y EXCEPT !.observed = Append(@, item), !.pcChat = at]
        [] c.op = "streamComplete" ->
             [y EXCEPT !.observed = Append(@, StripImages(item.content)),
                       !.pcChat = at]
        [] c.op = "complete" ->
             LET z == [y EXCEPT !.completion = @ \o ToStr(item.content),
                                !.chatNexts = @ + 1]
             IN  IF at = "yieldMsg"
                 THEN [z EXCEPT !.pcChat = "done", !.outcome = "resolved"]
                 ELSE [z EXCEPT !.pcChat = "awaitSse"]

\* _streamChat runs off its end
Finish(c) ==
  [c EXCEPT !.pcChat = "done",
            !.outcome = IF c.op = "complete" THEN "resolved" ELSE "ended"]

\* an error thrown inside _streamChat: nothing catches it
Throw(c, error) == [c EXCEPT !.pcChat = "threw", !.outcome = error]

(***************************************************************************)
(* Operations.                                                             *)
(***************************************************************************)
\* _complete is called: it runs to the first await
Complete(i) ==
  /\ call[i].op = "complete"
  /\ call[i].pcChat = "notStarted"
  /\ call[i].outcome = "pending"
  /\ call' = [call EXCEPT ![i] =
                ChatStart([call[i] EXCEPT !.chatNexts = @ + 1], adapter)]
  /\ UNCHANGED <<adapter, fn>>

\* the consumer of _streamComplete or _streamChat asks for the next item
ConsumerNext(i) ==
  /\ call[i].op \in {"streamComplete", "streamChat"}
  /\ call[i].outcome = "pending"
  /\ call[i].pcChat \in {"notStarted", "yieldMsg", "yieldDelta"}
  /\ LET c == [call[i] EXCEPT !.chatNexts = @ + 1]
     IN  call' = [call EXCEPT ![i] =
                    CASE c.pcChat = "notStarted" -> ChatStart(c, adapter)
                      [] c.pcChat = "yieldMsg" -> Finish(c)
                      [] c.pcChat = "yieldDelta" ->
                           [c EXCEPT !.pcChat = "awaitSse"]]
  /\ UNCHANGED <<adapter, fn>>

\* ConsumerReturn with the loop of line 160 left without closing its iterator
ConsumerReturnLeak(i) ==
  /\ call[i].op \in {"streamComplete", "streamChat"}
  /\ call[i].outcome = "pending"
  /\ call[i].pcChat \in {"notStarted", "yieldMsg", "yieldDelta"}
  /\ call' = [call EXCEPT ![i] =
                [@ EXCEPT !.pcChat = "returned", !.outcome = "returned"]]
  /\ UNCHANGED <<adapter, fn>>

\* the consumer ends the sequence early (break, return()): a generator
\* suspended inside for await closes the iterator it loops over
ConsumerReturn(i) ==
  /\ call[i].op \in {"streamComplete", "streamChat"}
  /\ call[i].outcome = "pending"
  /\ call[i].pcChat \in {"notStarted", "yieldMsg", "yieldDelta"}
  /\ LET c == [call[i] EXCEPT !.pcChat = "returned", !.outcome = "returned"]
     IN  call' = [call EXCEPT ![i] =
                    IF call[i].pcChat = "yieldDelta"
                    THEN SseStop(c, "cancelled")
                    ELSE c]
  /\ UNCHANGED <<adapter, fn>>

\* FetchResolve without the branch of line 154
FetchResolveAlwaysSse(i) ==
  /\ call[i].pcChat = "awaitFetch"
  /\ call' = [call EXCEPT ![i] =
                [@ EXCEPT !.stream = "open", !.sse = "reading",
                          !.pcChat = "awaitSse"]]
  /\ UNCHANGED <<adapter, fn>>

\* FetchResolve recording on the adapter which endpoint answered
FetchResolveWritesAdapter(i) ==
  /\ call[i].pcChat = "awaitFetch"
  /\ call' = [call EXCEPT ![i] =
                IF call[i].body.stream = Bool(FALSE)
                THEN [@ EXCEPT !.stream = "open", !.pcChat = "awaitJson"]
                ELSE [@ EXCEPT !.stream = "open", !.sse = "reading",
                               !.pcChat = "awaitSse"]]
  /\ adapter' = [adapter EXCEPT !.useLegacyCompletionsEndpoint = Bool(FALSE)]
  /\ UNCHANGED fn

\* this.fetch resolves with the response; lines 154 and 160
FetchResolve(i) ==
  /\ call[i].pcChat = "awaitFetch"
  /\ call' = [call EXCEPT ![i] =
                IF call[i].body.stream = Bool(FALSE)
                THEN [@ EXCEPT !.stream = "open", !.pcChat = "awaitJson"]
                ELSE [@ EXCEPT !.stream = "open", !.sse = "reading",
                               !.pcChat = "awaitSse"]]
  /\ UNCHANGED <<adapter, fn>>

\* FetchReject with the request issued once more after a failure
FetchRejectRetry(i) ==
  /\ call[i].pcChat = "awaitFetch"
  /\ \E error \in {"TransportError", "UpstreamError"} :
       call' = [call EXCEPT ![i] =
                  IF call[i].fetchCalls < 2
                  THEN [@ EXCEPT !.fetchCalls = @ + 1]
                  ELSE [@ EXCEPT !.pcChat = "threw", !.outcome = error]]
  /\ UNCHANGED <<adapter, fn>>

\* this.fetch fails
FetchReject(i) ==
  /\ call[i].pcChat = "awaitFetch"
  /\ \E error \in {"TransportError", "UpstreamError"} :
       call' = [call EXCEPT ![i] = Throw(@, error)]
  /\ UNCHANGED <<adapter, fn>>

\* response.json() resolves; line 156
JsonResolve(i) ==
  /\ call[i].pcChat = "awaitJson"
  /\ \E d \in BodiesNow :
       LET c == BodyRead([call[i] EXCEPT !.data = d])
       IN  call' = [call EXCEPT ![i] =
                      IF IsNullish(d.choices) \/ d.choices.items = << >>
                      THEN Throw(c, "TypeError")
                      ELSE Emit(c, d.choices.items[1].message, "yieldMsg")]
  /\ UNCHANGED <<adapter, fn>>

\* response.json() fails on a body that is not JSON
JsonReject(i) ==
  /\ call[i].pcChat = "awaitJson"
  /\ call' = [call EXCEPT ![i] =
                Throw(BodyRead(@), "DecodeError")]
  /\ UNCHANGED <<adapter, fn>>

\* SseEvent testing that the content is present instead of that it is truthy
SseEventIfPresent(i) ==
  /\ call[i].pcChat = "awaitSse"
  /\ Len(call[i].delivered) < MaxEventsNow
  /\ \E value \in EventsNow :
       LET c == [call[i] EXCEPT !.delivered = Append(@, value)]
       IN  call' = [call EXCEPT ![i] =
                      IF DeltaContent(value) # Undefined
                      THEN Emit(c, value.choices.items[1].delta, "yieldDelta")
                      ELSE c]
  /\ UNCHANGED <<adapter, fn>>

\* the event source delivers an event; lines 161 to 163
SseEvent(i) ==
  /\ call[i].pcChat = "awaitSse"
  /\ Len(call[i].delivered) < MaxEventsNow
  /\ \E value \in EventsNow :
       LET c == [call[i] EXCEPT !.delivered = Append(@, value)]
       IN  call' = [call EXCEPT ![i] =
                      IF Truthy(DeltaContent(value))
                      THEN Emit(c, value.choices.items[1].delta, "yieldDelta")
                      ELSE c]
  /\ UNCHANGED <<adapter, fn>>

\* the event source closes: the loop of line 160 ends
SseClose(i) ==
  /\ call[i].pcChat = "awaitSse"
  /\ call' = [call EXCEPT ![i] =
                Finish(SseStop(@, "closed"))]
  /\ UNCHANGED <<adapter, fn>>

\* SseError with the error caught and the sequence ended normally
SseErrorSwallowed(i) ==
  /\ call[i].pcChat = "awaitSse"
  /\ call' = [call EXCEPT ![i] = Finish(SseStop(@, "failed"))]
  /\ UNCHANGED <<adapter, fn>>

\* the event source throws on a frame that is not JSON
SseError(i) ==
  /\ call[i].pcChat = "awaitSse"
  /\ call' = [call EXCEPT ![i] =
                Throw(SseStop(@, "failed"), "DecodeError")]
  /\ UNCHANGED <<adapter, fn>>

ApiBases == {Undefined, Str(<< >>), Str(<<"studio.nebius.ai">>), DefaultApiBase}
StreamFlags == {Undefined, Bool(TRUE), Bool(FALSE)}
Prompt == Str(<<"Say hello">>)
Messages ==
  <<Message(Str(<<"system">>), Str(<<"Be brief">>)),
    Message(Str(<<"user">>), Arr(<<TextPart(<<"Say ">>), TextPart(<<"hello">>)>>))>>

Calls ==
  { NewCall(op, Prompt, Messages, Options(s, Undefined)) :
      op \in {"complete", "streamComplete", "streamChat"}, s \in StreamFlags }

NoFn == [phase |-> "off"]

Init ==
  /\ \E base \in ApiBases : adapter = Adapter(base)
  /\ \E c \in Calls : call = [i \in Invocations |-> IF i = 1 THEN c ELSE Idle]
  /\ fn = NoFn

Next ==
  \E i \in Invocations :
    \/ Complete(i)
    \/ ConsumerNext(i)
    \/ ConsumerReturn(i)
    \/ FetchResolve(i)
    \/ FetchReject(i)
    \/ JsonResolve(i)
    \/ JsonReject(i)
    \/ SseEvent(i)
    \/ SseClose(i)
    \/ SseError(i)

Spec == Init /\ [][Next]_vars

(***************************************************************************)
(* Two invocations on the same adapter, interleaved at their awaits.       *)
(***************************************************************************)
ConcCalls ==
  { NewCall(op, Prompt, Messages, Options(s, Undefined)) :
      op \in {"complete", "streamComplete", "streamChat"},
      s \in {Undefined, Bool(FALSE)} }

InitConc ==
  /\ adapter = Adapter(DefaultApiBase)
  /\ \E c1 \in ConcCalls, c2 \in ConcCalls :
       call = [i \in Invocations |-> IF i = 1 THEN c1 ELSE c2]
  /\ fn = NoFn

SpecConc == InitConc /\ [][Next]_vars

(***************************************************************************)
(* _convertMessage called on a message, and again on its result.           *)
(***************************************************************************)
Roles == {"system", "user", "assistant", "tool"}
Parts == {TextPart(<<"a">>), TextPart(<<"b">>), TextPart(<< >>), ImagePart(<<"img">>)}
Contents ==
  {Str(<< >>), Str(<<"a">>), Str(<<"a", "b">>)}
    \cup {Arr(ps) : ps \in UNION {[1..n -> Parts] : n \in 0..MaxParts}}
ChatMessageValues == {Message(Str(<<r>>), c) : r \in Roles, c \in Contents}

InitMsg ==
  /\ adapter = Adapter(DefaultApiBase)
  /\ call = [i \in Invocations |-> Idle]
  /\ \E m \in ChatMessageValues :
       fn = [phase |-> "message", message |-> m, out |-> Undefined,
             again |-> Undefined]

Normalize ==
  /\ fn.phase = "message"
  /\ fn' = [fn EXCEPT !.phase = "normalized", !.out = ConvertMessage(fn.message)]
  /\ UNCHANGED <<adapter, call>>

NormalizeAgain ==
  /\ fn.phase = "normalized"
  /\ fn' = [fn EXCEPT !.phase = "renormalized", !.again = ConvertMessage(fn.out)]
  /\ UNCHANGED <<adapter, call>>

NextMsg == Normalize \/ NormalizeAgain

SpecMsg == InitMsg /\ [][NextMsg]_vars

(***************************************************************************)
(* _convertArgs called on an adapter whose owner has set maxStopWords (a   *)
(* public field) or left it undefined.                                     *)
(***************************************************************************)
StopWords == {Str(<<"END">>), Str(<<"###">>)}
StopLists ==
  {Undefined} \cup {Arr(ws) : ws \in UNION {[1..n -> StopWords] : n \in 0..MaxStop}}
Caps == {Undefined} \cup {Num(n) : n \in 0..MaxCap}

InitArgs ==
  /\ \E cap \in Caps :
       adapter = [Adapter(DefaultApiBase) EXCEPT !.maxStopWords = cap]
  /\ call = [i \in Invocations |-> Idle]
  /\ \E s \in StreamFlags, stop \in StopLists :
       fn = [phase |-> "args", options |-> Options(s, stop),
             messages |-> Messages, out |-> Undefined]

BuildArgs ==
  /\ fn.phase = "args"
  /\ fn' = [fn EXCEPT !.phase = "built",
                      !.out = ConvertArgs(fn.options, fn.messages,
                                          adapter.maxStopWords)]
  /\ UNCHANGED <<adapter, call>>

NextArgs == BuildArgs

SpecArgs == InitArgs /\ [][NextArgs]_vars

(***************************************************************************)
(* Properties.                                                             *)
(***************************************************************************)
\* the path line 154 selects, once the request body has been built
Streaming(c) == c.body # Undefined /\ c.body.stream # Bool(FALSE)
NonStreaming(c) == c.body # Undefined /\ c.body.stream = Bool(FALSE)

\* an event whose first choice has a delta with non-empty content
CarriesContent(ev) ==
  /\ ev.choices.kind = "array"
  /\ Len(ev.choices.items) >= 1
  /\ ev.choices.items[1].delta.kind = "object"
  /\ ev.choices.items[1].delta.content.kind \in {"string", "array"}
  /\ ev.choices.items[1].delta.content # Str(<< >>)

RECURSIVE ContentDeltas(_)
\* the first-choice deltas of the events that carry content, in order
ContentDeltas(evs) ==
  IF evs = << >> THEN << >>
  ELSE (IF CarriesContent(Head(evs))
        THEN <<Head(evs).choices.items[1].delta>> ELSE << >>)
       \o ContentDeltas(Tail(evs))

\* C1: on the streaming path, what _streamChat has yielded is at every moment
\* the first-choice deltas of the delivered events that carry non-empty
\* content, in arrival order, one per such event; and the sequence has ended
\* exactly when the event source has closed.
C1_StreamYieldsContentDeltas ==
  \A i \in Invocations :
    Streaming(call[i]) =>
      /\ call[i].chatYielded = ContentDeltas(call[i].delivered)
      /\ (call[i].pcChat = "done") <=> (call[i].sse = "closed")
      /\ call[i].sse = "reading" => call[i].pcChat \in {"awaitSse", "yieldDelta"}

C1_Witness ==
  \E i \in Invocations :
    /\ Streaming(call[i])
    /\ call[i].pcChat = "done"
    /\ Len(call[i].chatYielded) = 2
    /\ Len(call[i].delivered) = 3
    /\ ~CarriesContent(call[i].delivered[2])

\* C2: on the non-streaming path the event stream decoder is never started,
\* at most one item is yielded, and the sequence that has ended normally has
\* yielded exactly one item, the first choice's message of the parsed body.
C2_NonStreamYieldsMessageOnce ==
  \A i \in Invocations :
    NonStreaming(call[i]) =>
      /\ call[i].sse = "idle"
      /\ call[i].delivered = << >>
      /\ call[i].chatYielded # << >> =>
           call[i].chatYielded = <<call[i].data.choices.items[1].message>>
      /\ call[i].pcChat \in {"yieldMsg", "done"} => Len(call[i].chatYielded) = 1

C2_Witness ==
  \E i \in Invocations :
    /\ NonStreaming(call[i])
    /\ call[i].pcChat = "done"
    /\ call[i].op = "streamChat"
    /\ Len(call[i].data.choices.items) = 2
    /\ call[i].observed = <<Delta(Str(<<"one">>))>>

\* the invocation has come to its end, whichever way
Over(c) == c.outcome # "pending"

\* C3 as claimed: every invocation that has come to its end has called
\* this.fetch exactly once.
C3_ExactlyOneRequest ==
  \A i \in Invocations : Over(call[i]) => call[i].fetchCalls = 1

\* C3 as amended: an invocation never calls this.fetch twice; it has called
\* it once as soon as _streamChat has started to run on a usable base URL,
\* and not at all when the base URL is missing or unusable or when the lazy
\* sequence was never advanced.
C3_AtMostOneRequest ==
  \A i \in Invocations :
    call[i].fetchCalls =
      IF call[i].pcChat \notin {"notStarted"} /\ call[i].body # Undefined
         /\ adapter.apiBase \in AbsoluteBases
      THEN 1 ELSE 0

C3_Witness ==
  \E i \in Invocations :
    /\ call[i].outcome = "DecodeError"
    /\ call[i].sse = "failed"
    /\ call[i].chatYielded # << >>
    /\ call[i].fetchCalls = 1

\* C4: whenever _streamChat has ended (normally, by the consumer's return, or
\* by an error) after having obtained a response, the response's stream has
\* been released.
C4_StreamReleasedOnExit ==
  \A i \in Invocations :
    (call[i].pcChat \in {"done", "returned", "threw"} /\ call[i].stream # "none")
      => call[i].stream = "released"

C4_Witness ==
  \E i \in Invocations :
    /\ call[i].op = "streamComplete"
    /\ call[i].pcChat = "returned"
    /\ call[i].sse = "cancelled"
    /\ call[i].stream = "released"
    /\ Len(call[i].observed) = 1

\* C5: once the event source has failed after k deltas, the sequence has
\* ended with that error, the consumer holds exactly the k deltas yielded
\* before it, in order, and nothing changes afterwards.
C5_ErrorAfterDeltas ==
  /\ [](\A i \in Invocations :
          call[i].sse = "failed" =>
            /\ call[i].outcome = "DecodeError"
            /\ call[i].pcChat = "threw"
            /\ call[i].chatYielded = ContentDeltas(call[i].delivered)
            /\ call[i].op = "streamChat" =>
                 call[i].observed = call[i].chatYielded)
  /\ [][\A i \in Invocations :
          call[i].sse = "failed" => call'[i] = call[i]]_vars

C5_Witness ==
  \E i \in Invocations :
    /\ call[i].op = "streamChat"
    /\ call[i].sse = "failed"
    /\ call[i].outcome = "DecodeError"
    /\ Len(call[i].observed) = 2

\* the text a content carries: a string's text, the text parts of a part
\* array, nothing otherwise
CarriedText(content) ==
  CASE content.kind = "string" -> content.text
    [] content.kind = "array" ->
         JoinText(SelectSeq([k \in 1..Len(content.items) |->
                               content.items[k].text],
                            LAMBDA t : t # Undefined), << >>)
    [] OTHER -> << >>

RECURSIVE CarriedTexts(_)
CarriedTexts(items) ==
  IF items = << >> THEN << >>
  ELSE CarriedText(Head(items).content) \o CarriedTexts(Tail(items))

\* C6: _complete sends the prompt as a single user message and, when it
\* returns, returns the concatenation in yield order of the text of the
\* yielded items, and nothing but text the response carried; it returns only
\* when the sequence has ended without an error.
C6_CompleteConcatenates ==
  \A i \in Invocations :
    (call[i].op = "complete" /\ call[i].outcome = "resolved") =>
      /\ call[i].request.body.messages = <<Message(Str(<<"user">>), call[i].prompt)>>
      /\ call[i].pcChat = "done"
      /\ call[i].completion = CarriedTexts(call[i].chatYielded)

\* C7: _streamComplete has yielded one string per item _streamChat has
\* yielded, in the same order, each the item's content without its images,
\* and has asked for at most one item more than it has yielded strings.
C7_StreamCompleteOneToOne ==
  \A i \in Invocations :
    call[i].op = "streamComplete" =>
      /\ Len(call[i].observed) = Len(call[i].chatYielded)
      /\ \A k \in 1..Len(call[i].observed) :
           LET content == call[i].chatYielded[k].content
           IN  call[i].observed[k] =
                 IF content.kind = "array" THEN Str(CarriedText(content))
                 ELSE content
      /\ call[i].chatNexts <= Len(call[i].observed) + 1

C7_Witness ==
  \E i \in Invocations :
    /\ call[i].op = "streamComplete"
    /\ call[i].pcChat = "awaitSse"
    /\ call[i].chatNexts = 3
    /\ call[i].observed = <<Str(<<"see">>), Str(<<"lo">>)>>

\* what an invocation running alone yields on the response it has received
YieldsAlone(c) ==
  IF NonStreaming(c)
  THEN (IF c.data = Undefined \/ IsNullish(c.data.choices) THEN << >>
        ELSE <<c.data.choices.items[1].message>>)
  ELSE ContentDeltas(c.delivered)

\* C8: with two invocations interleaved on one adapter, no step writes the
\* adapter's fields or an invocation's arguments, a step of one invocation
\* leaves the other as it is, and each invocation yields what it would yield
\* alone on its own response.
C8_InvocationsDoNotInterfere ==
  /\ [](\A i \in Invocations :
          /\ call[i].chatYielded = YieldsAlone(call[i])
          /\ call[i].op \in {"streamChat", "streamComplete"} =>
               Len(call[i].observed) = Len(call[i].chatYielded))
  /\ [][/\ adapter' = adapter
        /\ \A i \in Invocations :
             /\ call'[i].prompt = call[i].prompt
             /\ call'[i].messages = call[i].messages
             /\ call'[i].options = call[i].options
             /\ call'[i] # call[i] =>
                  \A j \in Invocations \ {i} : call'[j] = call[j]]_vars

C8_Witness ==
  /\ call[1].pcChat = "yieldDelta"
  /\ call[2].pcChat = "awaitSse"
  /\ Len(call[1].chatYielded) = 2
  /\ Len(call[2].chatYielded) = 1
  /\ call[2].op = "complete"

\* C9: _convertArgs caps the stop list at maxStopWords: a longer list becomes
\* its first maxStopWords entries in their order, a list within the cap or
\* without a cap is passed as it is, and an absent list stays absent.
C9_StopListCapped ==
  fn.phase = "built" =>
    LET stop == fn.options.stop
        cap == adapter.maxStopWords
        out == fn.out.stop
    IN  /\ stop = Undefined => out = Undefined
        /\ (stop # Undefined /\ cap # Undefined /\ Len(stop.items) > cap.val) =>
             /\ out.kind = "array"
             /\ Len(out.items) = cap.val
             /\ \A k \in 1..cap.val : out.items[k] = stop.items[k]
        /\ (stop # Undefined /\ (cap = Undefined \/ Len(stop.items) <= cap.val)) =>
             out = stop

C9_Witness ==
  /\ fn.phase = "built"
  /\ adapter.maxStopWords = Num(2)
  /\ fn.options.stop = Arr(<<Str(<<"END">>), Str(<<"###">>), Str(<<"END">>)>>)
  /\ fn.out.stop = Arr(<<Str(<<"END">>), Str(<<"###">>)>>)

RECURSIVE PartTexts(_)
\* the text payloads of text parts, concatenated in order
PartTexts(parts) ==
  IF parts = << >> THEN << >>
  ELSE Head(parts).text.text \o PartTexts(Tail(parts))

AllText(content) ==
  content.kind = "array" /\ \A k \in 1..Len(content.items) :
                              content.items[k].type = "text"

\* a message as it goes on the wire: a role and a string, or a role and
\* parts tagged text or image_url
WireShaped(m) ==
  /\ m.kind = "object"
  /\ m.role.kind = "string"
  /\ \/ m.content.kind = "string"
     \/ /\ m.content.kind = "array"
        /\ \A k \in 1..Len(m.content.items) :
             \/ m.content.items[k].type = "text"
             \/ /\ m.content.items[k].type = "image_url"
                /\ m.content.items[k].image_url.detail = Str(<<"low">>)

\* C10: _convertMessage gives every message a wire shape; a message with a
\* string content comes out unchanged; one whose parts are all text keeps
\* its role and gets the parts' text concatenated in order as its content;
\* on both, converting the result again changes nothing.
C10_NormalizeAllText ==
  fn.phase \in {"normalized", "renormalized"} =>
    /\ WireShaped(fn.out)
    /\ fn.message.content.kind = "string" => fn.out = fn.message
    /\ AllText(fn.message.content) =>
         /\ fn.out.role = fn.message.role
         /\ fn.out.content = Str(PartTexts(fn.message.content.items))
    /\ (fn.phase = "renormalized"
        /\ (fn.message.content.kind = "string" \/ AllText(fn.message.content)))
         => fn.again = fn.out

C10_Witness ==
  /\ fn.phase = "renormalized"
  /\ fn.message.content = Arr(<<TextPart(<<"a">>), TextPart(<<"b">>)>>)
  /\ fn.out.content = Str(<<"a", "b">>)
  /\ fn.again = fn.out

====
